---- MODULE Spec2Model ----
(***************************************************************************)
(* Model of backend/ocr-service/main.py: the /recognize handler, the       *)
(* asyncio semaphore that guards it, and run_ocr_sync running in the       *)
(* default thread-pool executor.                                           *)
(*                                                                         *)
(* Each request is one asyncio task (the coroutine `recognize`) plus, once *)
(* it has passed decode, one executor thread running run_ocr_sync.  The    *)
(* coroutine's position is pc[r], the thread's position is thread[r].      *)
(* Confidences are integers: an engine confidence is in thousandths        *)
(* (0..1000), and the response's confidence, a percentage rounded to one   *)
(* decimal, is in tenths of a percent (0..1000).                           *)
(***************************************************************************)
EXTENDS Integers, Sequences, FiniteSets, TLC

\* ------------------------------------------------------------------ bounds
NumRequests == 2

\* The longest page of line records given to the aggregation on its own.
MaxLines == 3

\* The clock of the timed specification stops at MaxTime.
MaxTime == 1

Requests == 1..NumRequests

\* ------------------------------------------------------- program constants
\* ocr_semaphore = asyncio.Semaphore(1)
Capacity == 1

\* LANG_MAP, entry by entry.
LANG_MAP ==
  ("en" :> "en") @@ ("eng" :> "en") @@
  ("vi" :> "vi") @@ ("vie" :> "vi") @@
  ("ch" :> "ch") @@ ("chi_sim" :> "ch") @@
  ("chi_tra" :> "chinese_cht") @@
  ("ja" :> "japan") @@ ("jpn" :> "japan") @@
  ("ko" :> "korean") @@ ("kor" :> "korean") @@
  ("fr" :> "french") @@ ("fra" :> "french") @@
  ("de" :> "german") @@ ("deu" :> "german") @@
  ("es" :> "es") @@ ("spa" :> "es") @@
  ("ru" :> "ru") @@ ("rus" :> "ru")

\* LANG_MAP.get(lang, lang): the default is the code itself.
PaddleLangPassThrough(lang) ==
  IF lang \in DOMAIN LANG_MAP THEN LANG_MAP[lang] ELSE lang

\* paddle_lang = LANG_MAP.get(lang, "en")
PaddleLang(lang) == IF lang \in DOMAIN LANG_MAP THEN LANG_MAP[lang] ELSE "en"

\* ------------------------------------------------------------------ inputs
\* What cv2.imdecode does with the uploaded bytes: "valid" decodes to a
\* raster, "malformed" makes imdecode return None, "empty" (zero-size
\* buffer) makes imdecode raise cv2.error.
Images == {"valid", "malformed", "empty"}

\* The `language` query parameter: an alias and an unrecognized code.
LanguageInputs == {"jpn", "zz"}

\* str(e) of an exception raised by the upload, the decoder or the engine.
FaultMessages == {"", "engine fault"}

\* One record of result[0] as the engine returns it.  kind "ok" is
\* [box, (text, conf)]; "empty" is a falsy record; "short" has fewer than two
\* fields; "notpair" has a second field that is not a tuple of length >= 2;
\* "long" has a tuple of more than two fields as its second field.
Line(k, t, c) == [kind |-> k, text |-> t, conf |-> c]

\* The values ocr.ocr(img, cls=True) returns: None, [None], and pages of
\* line records.
NoResult == [none |-> TRUE, page |-> <<>>]

Page(ls) == [none |-> FALSE, page |-> ls]

EngineResults ==
  { NoResult,
    Page(<< >>),
    Page(<< Line("ok", "a", 900), Line("ok", "b", 805) >>),
    Page(<< Line("short", "", 0), Line("ok", "b", 700) >>),
    Page(<< Line("ok", "a", 900), Line("long", "c", 500) >>) }

\* ------------------------------------------------------- exception classes
\* `except Exception as e:` -- the classes the clause catches, among
\* "Exception", "HTTPException", "cv2.error", "ValueError" and
\* "CancelledError": CancelledError derives from BaseException, the others
\* from Exception.
CatchesOnlyValueError(cls) == cls = "ValueError"

CatchesException(cls) == cls # "CancelledError"

\* str(HTTPException(status_code=400, detail="Invalid image file"))
HttpErrorText == "400: Invalid image file"

\* ----------------------------------------------------------- OCRResponse
\* class OCRResponse: the field defaults.
OCRResponse(ok, txt, conf, time, lang, err) ==
  [success |-> ok, text |-> txt, confidence |-> conf,
   processingTime |-> time, detectedLanguage |-> lang, error |-> err]

\* int((time.time() - start_time) * 1000), in clock units.
ProcessingTime(t, start) == t - start

\* detectedLanguage=paddle_lang instead of the parameter.
SuccessResponseResolved(txt, conf, time, lang) ==
  OCRResponse(TRUE, txt, conf, time, PaddleLang(lang), "")

\* The response of the success path: error keeps its default.
SuccessResponse(txt, conf, time, lang) ==
  OCRResponse(TRUE, txt, conf, time, lang, "")

\* processingTime left at its default 0.
FailureResponseDefaultTime(msg, time) == OCRResponse(FALSE, "", 0, 0, "", msg)

\* The response of the except clause: text, confidence and
\* detectedLanguage keep their defaults.
FailureResponse(msg, time) == OCRResponse(FALSE, "", 0, time, "", msg)

NoResponse == [success |-> FALSE, text |-> "", confidence |-> 0,
               processingTime |-> 0, detectedLanguage |-> "",
               error |-> "<no response>"]

\* ------------------------------------------------------------ aggregation
\* The loop over result[0]: the records that are appended to lines and
\* confidences.
RECURSIVE Extracted(_)
Extracted(ls) ==
  IF ls = << >> THEN << >>
  ELSE IF Head(ls).kind = "ok" THEN << Head(ls) >> \o Extracted(Tail(ls))
       ELSE Extracted(Tail(ls))

\* `text, conf = text_info` raises ValueError on a tuple of more than two.
Unpackable(res) ==
  res.none \/ \A i \in 1..Len(res.page) : res.page[i].kind # "long"

\* "\n".join(lines)
RECURSIVE Join(_)
Join(ls) ==
  IF ls = << >> THEN ""
  ELSE IF Len(ls) = 1 THEN ls[1].text
       ELSE ls[1].text \o "\n" \o Join(Tail(ls))

RECURSIVE SumConf(_)
SumConf(ls) == IF ls = << >> THEN 0 ELSE ls[1].conf + SumConf(Tail(ls))

\* round(x, 1) of x = n/d percent-tenths: round half to even.
RoundHalfEven(n, d) ==
  LET q == n \div d
      r == n % d
  IN  IF 2 * r < d THEN q
      ELSE IF 2 * r > d THEN q + 1
           ELSE IF q % 2 = 0 THEN q ELSE q + 1

\* int(avg_confidence * 10) / 10: the mean cut off, not rounded.
ConfidenceTruncated(ls) ==
  IF ls = << >> THEN 0 ELSE SumConf(ls) \div Len(ls)

\* avg_confidence = sum(confidences) / len(confidences) * 100 if confidences
\* else 0, then round(avg_confidence, 1) in the response.
Confidence(ls) == IF ls = << >> THEN 0 ELSE RoundHalfEven(SumConf(ls), Len(ls))

\* if result and result[0]: the lines the loop sees.
PageOf(res) == IF res.none THEN << >> ELSE res.page

\* ------------------------------------------------------------------ state
VARIABLES
  pc,          \* position of the request's coroutine
  language,    \* the language parameter
  permits,     \* ocr_semaphore._value
  thread,      \* position of the executor thread running run_ocr_sync
  engine,      \* the PaddleOCR instance of the request's run_ocr_sync call
  outcome,     \* what the executor future carries: a value or an exception
  fault,       \* the stage at which an exception was raised in the request
  response,    \* the OCRResponse the handler returned
  acquired,    \* number of semaphore acquisitions by the request
  released,    \* number of semaphore releases by the request
  constructed, \* number of PaddleOCR constructions started by the request
  recognized,  \* number of ocr.ocr calls made for the request
  now,         \* time.time()
  startTime,   \* start_time of the request's handler frame
  elapsed,     \* clock units that passed while the request was in the
               \* handler (total) and while it waited for the semaphore
  health,      \* a GET / request: "none", "pending" or "done"
  lookup,      \* the language resolver applied on its own
  aggregate    \* the line extraction and aggregation applied on its own

vars == << pc, language, permits, thread, engine, outcome, fault,
           response, acquired, released, constructed, recognized,
           now, startTime, elapsed, health, lookup, aggregate >>

\* The state of the request handlers, the semaphore and the executor.
service == << pc, language, permits, thread, engine, outcome, fault,
              response, acquired, released, constructed, recognized,
              startTime >>

\* What no step of /recognize changes.
aside == << health, lookup, aggregate >>

NoOutcome == [kind |-> "none", text |-> "", conf |-> 0, msg |-> "",
              cls |-> "none", stage |-> "none"]

Returned(txt, c) == [kind |-> "value", text |-> txt, conf |-> c, msg |-> "",
                     cls |-> "none", stage |-> "none"]

Raised(st, c, m) == [kind |-> "exc", text |-> "", conf |-> 0, msg |-> m,
                     cls |-> c, stage |-> st]

\* The coroutine is inside `async with ocr_semaphore:`.
InGuarded(r) == pc[r] \in {"read", "decode", "await_exec"}

Holders == {r \in Requests : InGuarded(r)}

\* The handler has been entered and has not been left.
InHandler(r) == pc[r] \in {"acquire", "read", "decode", "await_exec"}

\* run_ocr_sync is constructing the engine or running ocr.ocr.
EngineInUse(r) == thread[r] \in {"construct", "ocr"}

LiveEngines == {r \in Requests : engine[r] = "live"}

\* No coroutine is in the middle of a synchronous stretch of code: the
\* event loop can run another callback.  frombuffer and cv2.imdecode are
\* called in the coroutine itself, between two awaits.
LoopFree == \A r \in Requests : pc[r] # "decode"

NoTime == [total |-> 0, waiting |-> 0]

NoLookup == [step |-> "idle"]

NoAggregate == [step |-> "idle"]

ServiceInit ==
  /\ pc = [r \in Requests |-> "idle"]
  /\ language = [r \in Requests |-> "en"]
  /\ permits = Capacity
  /\ thread = [r \in Requests |-> "none"]
  /\ engine = [r \in Requests |-> "none"]
  /\ outcome = [r \in Requests |-> NoOutcome]
  /\ fault = [r \in Requests |-> "none"]
  /\ response = [r \in Requests |-> NoResponse]
  /\ acquired = [r \in Requests |-> 0]
  /\ released = [r \in Requests |-> 0]
  /\ constructed = [r \in Requests |-> 0]
  /\ recognized = [r \in Requests |-> 0]
  /\ now = 0
  /\ startTime = [r \in Requests |-> 0]
  /\ elapsed = [r \in Requests |-> NoTime]
  /\ health = "none"

Init ==
  /\ ServiceInit
  /\ lookup = NoLookup
  /\ aggregate = NoAggregate

\* ---------------------------------------------------------------- actions
\* The request arrives: start_time is taken and the coroutine reaches
\* `async with ocr_semaphore:`.
Start(r) ==
  /\ pc[r] = "idle"
  /\ LoopFree
  /\ \E lang \in LanguageInputs : language' = [language EXCEPT ![r] = lang]
  /\ startTime' = [startTime EXCEPT ![r] = now]
  /\ pc' = [pc EXCEPT ![r] = "acquire"]
  /\ UNCHANGED << permits, thread, engine, outcome, fault, response,
                  acquired, released, constructed, recognized, now, elapsed >>
  /\ UNCHANGED aside

\* Semaphore.acquire: proceeds only while the value is positive.
CanAcquireNoCheck(v) == TRUE

CanAcquire(v) == v > 0

\* __aenter__ of the semaphore: the coroutine takes a permit.
Acquire(r) ==
  /\ pc[r] = "acquire"
  /\ LoopFree
  /\ CanAcquire(permits)
  /\ permits' = permits - 1
  /\ acquired' = [acquired EXCEPT ![r] = @ + 1]
  /\ pc' = [pc EXCEPT ![r] = "read"]
  /\ UNCHANGED << language, thread, engine, outcome, fault, response,
                  released, constructed, recognized, now, startTime, elapsed >>
  /\ UNCHANGED aside

\* __aexit__ of the semaphore: release() adds one to the value, whether the
\* block is left by a return or by an exception (exc).
AExitOnReturnOnly(v, exc) == IF exc THEN v ELSE v + 1

AExit(v, exc) == v + 1

\* The handler's frame is left: its start_time and its language parameter
\* are gone.
LeaveFrame(r) ==
  /\ startTime' = [startTime EXCEPT ![r] = 0]
  /\ language' = [language EXCEPT ![r] = "en"]

\* An exception of class cls with str(e) = msg is raised inside the try
\* block at the given stage: the except clause returns the failure response,
\* or the exception leaves the handler; either way the async with is left.
HandlerRaises(r, stage, cls, msg) ==
  /\ fault' = [fault EXCEPT ![r] = stage]
  /\ permits' = AExit(permits, TRUE)
  /\ released' = [released EXCEPT ![r] = @ + (permits' - permits)]
  /\ LeaveFrame(r)
  /\ IF CatchesException(cls)
       THEN /\ pc' = [pc EXCEPT ![r] = "done"]
            /\ response' = [response EXCEPT ![r] =
                 FailureResponse(msg, ProcessingTime(now, startTime[r]))]
            /\ UNCHANGED elapsed
       ELSE /\ pc' = [pc EXCEPT ![r] = IF cls = "CancelledError"
                                         THEN "cancelled" ELSE "escaped"]
            /\ elapsed' = [elapsed EXCEPT ![r] = NoTime]
            /\ UNCHANGED response

\* `await image.read()` completes: it raises, or it returns the bytes and
\* the coroutine goes on, without another await, into frombuffer and
\* cv2.imdecode.
ReadDone(r) ==
  /\ pc[r] = "read"
  /\ LoopFree
  /\ \/ \E m \in FaultMessages : HandlerRaises(r, "read", "Exception", m)
     \/ /\ pc' = [pc EXCEPT ![r] = "decode"]
        /\ UNCHANGED << permits, fault, response, released, startTime,
                        language, elapsed >>
  /\ UNCHANGED << thread, engine, outcome, acquired, constructed,
                  recognized, now >>
  /\ UNCHANGED aside

\* cv2.imdecode finishes, then the None check and the submission of
\* run_ocr_sync to the executor.
Decode(r) ==
  /\ pc[r] = "decode"
  /\ \E img \in Images :
     \/ \* cv2.imdecode raises
        /\ img = "empty"
        /\ \E m \in FaultMessages : HandlerRaises(r, "imdecode", "cv2.error", m)
        /\ UNCHANGED << thread >>
     \/ \* img is None
        /\ img = "malformed"
        /\ HandlerRaises(r, "img_none", "HTTPException", HttpErrorText)
        /\ UNCHANGED << thread >>
     \/ \* loop.run_in_executor(None, run_ocr_sync, img, language)
        /\ img = "valid"
        /\ thread' = [thread EXCEPT ![r] = "queued"]
        /\ pc' = [pc EXCEPT ![r] = "await_exec"]
        /\ UNCHANGED << permits, fault, response, released, startTime,
                        language, elapsed >>
  /\ UNCHANGED << engine, outcome, acquired, constructed, recognized, now >>
  /\ UNCHANGED aside

\* A pool thread picks the work item up and enters run_ocr_sync: the
\* language is resolved and PaddleOCR(...) is being constructed.
ThreadStart(r) ==
  /\ thread[r] = "queued"
  /\ thread' = [thread EXCEPT ![r] = "construct"]
  /\ constructed' = [constructed EXCEPT ![r] = @ + 1]
  /\ UNCHANGED << pc, language, permits, engine, outcome, fault,
                  response, acquired, released, recognized, now, startTime,
                  elapsed >>
  /\ UNCHANGED aside

\* The executor future delivers run_ocr_sync's value or exception to the
\* coroutine that awaits it; the future of a cancelled await delivers
\* nothing.
Deliver(r, out) ==
  outcome' = [outcome EXCEPT ![r] = IF pc[r] = "await_exec" THEN out ELSE @]

\* An exception leaves run_ocr_sync before `del ocr`.  While the coroutine
\* still awaits the future the frame (and its engine) stays referenced by
\* the exception's traceback; an abandoned future drops it.
ThreadRaises(r, stage, cls, msg) ==
  /\ thread' = [thread EXCEPT ![r] = "finished"]
  /\ Deliver(r, Raised(stage, cls, msg))
  /\ IF pc[r] = "await_exec"
       THEN engine' = engine
       ELSE engine' = [engine EXCEPT ![r] = IF @ = "live" THEN "dropped"
                                              ELSE @]

\* PaddleOCR(...) returns the instance, on which ocr.ocr is then called, or
\* it raises.
Construct(r) ==
  /\ thread[r] = "construct"
  /\ \/ /\ engine' = [engine EXCEPT ![r] = "live"]
        /\ thread' = [thread EXCEPT ![r] = "ocr"]
        /\ recognized' = [recognized EXCEPT ![r] = @ + 1]
        /\ UNCHANGED outcome
     \/ /\ \E m \in FaultMessages :
             ThreadRaises(r, "construct", "Exception", m)
        /\ UNCHANGED recognized
  /\ UNCHANGED << pc, language, permits, fault, response, acquired,
                  released, constructed, now, startTime, elapsed >>
  /\ UNCHANGED aside

\* `del ocr; gc.collect()`: the explicit release of the instance.
ReleaseEngine(e) == "released"

\* ocr.ocr(img, cls=True) returns or raises; on return the lines are
\* extracted and aggregated, `del ocr; gc.collect()` runs and run_ocr_sync
\* returns (full_text, avg_confidence).
Ocr(r) ==
  /\ thread[r] = "ocr"
  /\ \/ \E m \in FaultMessages : ThreadRaises(r, "ocr", "Exception", m)
     \/ \E res \in EngineResults :
          IF Unpackable(res)
            THEN /\ thread' = [thread EXCEPT ![r] = "finished"]
                 /\ engine' = [engine EXCEPT ![r] = ReleaseEngine(@)]
                 /\ Deliver(r, Returned(Join(Extracted(PageOf(res))),
                                        Confidence(Extracted(PageOf(res)))))
            ELSE ThreadRaises(r, "extract", "ValueError",
                              "too many values to unpack (expected 2)")
  /\ UNCHANGED << pc, language, permits, fault, response, acquired,
                  released, constructed, recognized, now, startTime,
                  elapsed >>
  /\ UNCHANGED aside

\* The awaited executor future is done and the coroutine resumes: it
\* returns the success response, or the exception is raised at the await.
Resume(r) ==
  /\ pc[r] = "await_exec"
  /\ thread[r] = "finished"
  /\ LoopFree
  /\ IF outcome[r].kind = "value"
       THEN /\ response' = [response EXCEPT ![r] =
                 SuccessResponse(outcome[r].text, outcome[r].conf,
                                 ProcessingTime(now, startTime[r]),
                                 language[r])]
            /\ pc' = [pc EXCEPT ![r] = "done"]
            /\ permits' = AExit(permits, FALSE)
            /\ released' = [released EXCEPT ![r] = @ + (permits' - permits)]
            /\ LeaveFrame(r)
            /\ UNCHANGED << fault, engine, elapsed >>
       ELSE /\ HandlerRaises(r, outcome[r].stage, outcome[r].cls,
                             outcome[r].msg)
            /\ engine' = [engine EXCEPT ![r] = IF @ = "live" THEN "dropped"
                                                   ELSE @]
  /\ outcome' = [outcome EXCEPT ![r] = NoOutcome]
  /\ UNCHANGED << thread, acquired, constructed, recognized, now >>
  /\ UNCHANGED aside

\* A cancelled waiter also takes a permit with it.
CancelWaitingLosesPermit(r) ==
  /\ pc[r] = "acquire"
  /\ LoopFree
  /\ pc' = [pc EXCEPT ![r] = "cancelled"]
  /\ fault' = [fault EXCEPT ![r] = "cancelled"]
  /\ permits' = permits - 1
  /\ LeaveFrame(r)
  /\ elapsed' = [elapsed EXCEPT ![r] = NoTime]
  /\ UNCHANGED << thread, engine, outcome, response, acquired,
                  released, constructed, recognized, now >>
  /\ UNCHANGED aside

\* The request's task is cancelled while it waits for the semaphore:
\* CancelledError leaves acquire(), the block is never entered.
CancelWaiting(r) ==
  /\ pc[r] = "acquire"
  /\ LoopFree
  /\ pc' = [pc EXCEPT ![r] = "cancelled"]
  /\ fault' = [fault EXCEPT ![r] = "cancelled"]
  /\ LeaveFrame(r)
  /\ elapsed' = [elapsed EXCEPT ![r] = NoTime]
  /\ UNCHANGED << permits, thread, engine, outcome,
                  response, acquired, released, constructed, recognized,
                  now >>
  /\ UNCHANGED aside

\* The request's task is cancelled at an await inside the block:
\* CancelledError is raised at `await image.read()` or at
\* `await loop.run_in_executor(...)`.  A work item still queued is cancelled
\* with the future; one that a thread already runs keeps running.
CancelHolding(r) ==
  /\ pc[r] \in {"read", "await_exec"}
  /\ LoopFree
  /\ HandlerRaises(r, "cancelled", "CancelledError", "")
  /\ thread' = [thread EXCEPT ![r] = IF @ = "queued" THEN "none" ELSE @]
  /\ engine' = [engine EXCEPT ![r] =
        IF @ = "live" /\ thread[r] = "finished" THEN "dropped" ELSE @]
  /\ outcome' = [outcome EXCEPT ![r] = NoOutcome]
  /\ UNCHANGED << acquired, constructed, recognized, now >>
  /\ UNCHANGED aside

Next ==
  \E r \in Requests :
    \/ Start(r)
    \/ Acquire(r)
    \/ ReadDone(r)
    \/ Decode(r)
    \/ ThreadStart(r)
    \/ Construct(r)
    \/ Ocr(r)
    \/ Resume(r)
    \/ CancelWaiting(r)
    \/ CancelHolding(r)

Spec == Init /\ [][Next]_vars

\* The event loop runs every ready coroutine and the pool runs every
\* submitted work item; arrivals and cancellations are the environment's.
Fairness ==
  \A r \in Requests :
    /\ WF_vars(Acquire(r))
    /\ WF_vars(ReadDone(r))
    /\ WF_vars(Decode(r))
    /\ WF_vars(ThreadStart(r))
    /\ WF_vars(Construct(r))
    /\ WF_vars(Ocr(r))
    /\ WF_vars(Resume(r))

FairSpec == Init /\ [][Next]_vars /\ Fairness

\* ------------------------------------------------------------------ clock
\* time.time() advances by one unit, up to MaxTime.  The clock is read only
\* as a difference inside a handler, and the steps of the event loop are
\* short next to the engine's, so the units modelled are those that pass
\* while some request is in its handler and some pool thread is
\* constructing an engine or recognizing.
Tick ==
  /\ now < MaxTime
  /\ \E r \in Requests : InHandler(r)
  /\ \E r \in Requests : EngineInUse(r)
  /\ now' = now + 1
  /\ elapsed' = [r \in Requests |->
       [total |-> elapsed[r].total + (IF InHandler(r) THEN 1 ELSE 0),
        waiting |-> elapsed[r].waiting + (IF pc[r] = "acquire" THEN 1 ELSE 0)]]
  /\ UNCHANGED service
  /\ UNCHANGED aside

TimedNext == Next \/ Tick

TimedSpec == Init /\ [][TimedNext]_vars

\* ----------------------------------------------------------- health check
\* A client issues GET /.
HealthArrive ==
  /\ health = "none"
  /\ health' = "pending"
  /\ UNCHANGED << service, now, elapsed, lookup, aggregate >>

\* The event loop runs the health coroutine, which returns at once.
HealthServe ==
  /\ health = "pending"
  /\ LoopFree
  /\ health' = "done"
  /\ UNCHANGED << service, now, elapsed, lookup, aggregate >>

HealthNext == Next \/ HealthArrive \/ HealthServe

HealthSpec == Init /\ [][HealthNext]_vars

\* ------------------------------------------------------- language resolver
\* The codes a caller may send: the keys of LANG_MAP, the engine's own
\* identifiers that are not keys, and codes the table does not know.
CodeInputs ==
  DOMAIN LANG_MAP \cup {"chinese_cht", "japan", "korean", "french", "german"}
                  \cup {"zz", "", "EN", "jp"}

\* Two codes are given to the resolver.
ResolverInit ==
  /\ ServiceInit
  /\ aggregate = NoAggregate
  /\ lookup \in {[step |-> "input", code |-> a, other |-> b, canon |-> "",
                   canonOther |-> "", again |-> ""] : a, b \in CodeInputs}

\* paddle_lang = LANG_MAP.get(lang, "en") for each of the two codes.
Resolve ==
  /\ lookup.step = "input"
  /\ lookup' = [lookup EXCEPT !.step = "resolved",
                              !.canon = PaddleLang(lookup.code),
                              !.canonOther = PaddleLang(lookup.other)]
  /\ UNCHANGED << service, now, elapsed, health, aggregate >>

\* The resolver applied to its own output.
ResolveAgain ==
  /\ lookup.step = "resolved"
  /\ lookup' = [lookup EXCEPT !.step = "again",
                              !.again = PaddleLang(lookup.canon)]
  /\ UNCHANGED << service, now, elapsed, health, aggregate >>

ResolverNext == Resolve \/ ResolveAgain

ResolverSpec == ResolverInit /\ [][ResolverNext]_vars

\* ------------------------------------------------------------- aggregation
\* The records a page may hold: well-formed ones and the malformed shapes.
LineInputs ==
  {Line("ok", t, c) : t \in {"a", "bc"}, c \in {700, 800, 805, 900, 902}}
    \cup {Line("empty", "", 0), Line("short", "", 0), Line("notpair", "", 0),
          Line("long", "c", 500)}

RECURSIVE PagesUpTo(_)
PagesUpTo(n) ==
  IF n = 0 THEN {<< >>}
  ELSE PagesUpTo(n - 1) \cup
       {Append(ls, l) : ls \in {p \in PagesUpTo(n - 1) : Len(p) = n - 1},
                        l \in LineInputs}

\* What ocr.ocr may return: None, or a first page of up to MaxLines records.
AggregateInputs == {NoResult} \cup {Page(ls) : ls \in PagesUpTo(MaxLines)}

\* One value of ocr.ocr is given to lines 85-99.
AggregateInit ==
  /\ ServiceInit
  /\ lookup = NoLookup
  /\ aggregate \in {[step |-> "input", result |-> res, out |-> NoOutcome] :
                      res \in AggregateInputs}

\* The extraction loop, the join, the mean and the rounding of the
\* response: run_ocr_sync's value, or the exception of the unpacking.
Aggregate ==
  /\ aggregate.step = "input"
  /\ aggregate' = [aggregate EXCEPT
       !.step = "done",
       !.out = IF Unpackable(aggregate.result)
                 THEN Returned(Join(Extracted(PageOf(aggregate.result))),
                               Confidence(Extracted(PageOf(aggregate.result))))
                 ELSE Raised("extract", "ValueError",
                             "too many values to unpack (expected 2)")]
  /\ UNCHANGED << service, now, elapsed, health, lookup >>

AggregateNext == Aggregate

AggregateSpec == AggregateInit /\ [][AggregateNext]_vars

\* ------------------------------------------------------------ properties
\* The stages at which the upload, the decoder or the engine raise.
DecodeFaults == {"imdecode", "img_none"}

PipelineFaults == {"read", "imdecode", "img_none", "construct", "ocr",
                   "extract"}

Terminated(r) == pc[r] \in {"done", "cancelled", "escaped"}

\* C1: in every reachable state at most Capacity (= 1) requests are inside
\* the semaphore-guarded section, and a request enters the section only in
\* a step taken from a state in which no other request is inside it.
C1_GateBound ==
  /\ [](Cardinality(Holders) <= Capacity)
  /\ [][\A q \in Requests :
          (~InGuarded(q) /\ InGuarded(q)') => Holders = {}]_vars

\* A request is inside the section while another waits at the semaphore.
C1_Witness ==
  \E r, q \in Requests :
    r # q /\ InGuarded(r) /\ pc[q] = "acquire" /\ permits = 0

\* C2: whenever run_ocr_sync is constructing an engine or running
\* recognition for a request, that request is still inside the
\* semaphore-guarded section (it holds the permit).
C2_EngineUnderPermit == \A r \in Requests : EngineInUse(r) => InGuarded(r)

\* C3: at most one engine instance is constructed and not yet released.
C3_OneLiveEngine == Cardinality(LiveEngines) <= 1

\* C4: permits available plus holders is Capacity, the available count never
\* exceeds Capacity, a request that has left the handler has released
\* exactly what it acquired (once, if it acquired), and with no request in
\* the section all permits are available.
C4_PermitAccounting ==
  /\ permits + Cardinality(Holders) = Capacity
  /\ permits <= Capacity
  /\ \A r \in Requests :
       /\ acquired[r] <= 1
       /\ Terminated(r) => released[r] = acquired[r] /\ ~InGuarded(r)
       /\ pc[r] = "done" => acquired[r] = 1 /\ released[r] = 1
       /\ InGuarded(r) => acquired[r] = 1 /\ released[r] = 0
  /\ (Holders = {}) => permits = Capacity

\* A request whose engine construction failed has responded and its permit
\* is back.
C4_Witness ==
  \E r \in Requests :
    /\ pc[r] = "done" /\ fault[r] = "construct"
    /\ released[r] = 1 /\ permits = Capacity

\* C5: a fault raised by ocr.ocr gives a success=false response, and from
\* then on every request waiting at the semaphore gets the permit and
\* leaves the handler with its own response (or is cancelled by its
\* caller): none of them blocks forever.
C5_FaultFreesPermit ==
  /\ [](\A r \in Requests :
          fault[r] = "ocr" => pc[r] = "done" /\ ~response[r].success)
  /\ \A r, q \in Requests :
       (fault[r] = "ocr" /\ pc[q] = "acquire")
         ~> ((pc[q] = "done" /\ acquired[q] = 1) \/ pc[q] = "cancelled")

\* ocr.ocr has faulted for one request while another waits at the semaphore.
C5_Witness ==
  \E r, q \in Requests :
    /\ fault[r] = "ocr" /\ ~response[r].success
    /\ pc[q] = "acquire"

\* C6 as stated: a request whose image fails to decode never takes a permit.
C6_DecodeFailureTakesNoPermit ==
  \A r \in Requests : fault[r] \in DecodeFaults => acquired[r] = 0

\* C6 amended: a request whose image fails to decode took exactly one permit
\* (before reading and decoding) and gave it back with its failure
\* response; it holds none afterwards.
C6_DecodeFailureReleasesPermit ==
  \A r \in Requests :
    fault[r] \in DecodeFaults =>
      /\ acquired[r] = 1 /\ released[r] = 1
      /\ ~InGuarded(r)
      /\ pc[r] = "done" /\ ~response[r].success

\* imdecode raised for a request that had taken the permit.
C6_Witness ==
  \E r \in Requests :
    fault[r] = "imdecode" /\ acquired[r] = 1 /\ released[r] = 1

\* C7: when imdecode returns None the response has success=false and a
\* non-empty error, run_ocr_sync is never started and no engine is
\* constructed for the request.
C7_MalformedImage ==
  \A r \in Requests :
    fault[r] = "img_none" =>
      /\ pc[r] = "done"
      /\ ~response[r].success /\ response[r].error # ""
      /\ thread[r] = "none" /\ constructed[r] = 0 /\ engine[r] = "none"

\* The handler has answered a request whose image decoded to None.
C7_Witness ==
  \E r \in Requests :
    fault[r] = "img_none" /\ response[r].error = HttpErrorText

\* C8: no exception raised by the upload, the decoder, the engine
\* constructor or recognition leaves the handler: each gives a well-formed
\* success=false response, and a request whose run_ocr_sync raised
\* terminates (with that response, unless its caller cancels it first).
C8_FaultsBecomeResponses ==
  /\ [](\A r \in Requests :
          /\ pc[r] # "escaped"
          /\ fault[r] \in PipelineFaults =>
               /\ pc[r] = "done"
               /\ response[r] = FailureResponse(response[r].error,
                                                response[r].processingTime)
               /\ response[r] # NoResponse)
  /\ \A r \in Requests :
       (outcome[r].kind = "exc")
         ~> ((pc[r] = "done" /\ fault[r] \in PipelineFaults)
              \/ pc[r] = "cancelled")

\* Two requests have been answered after faults at different stages.
C8_Witness ==
  \E r, q \in Requests :
    /\ pc[r] = "done" /\ fault[r] = "read"
    /\ pc[q] = "done" /\ fault[q] \in {"construct", "extract"}

\* C9: a request cancelled while waiting for or holding the gate yields a
\* success=false response with a (non-empty) cancellation error, and a
\* request cancelled before its permit was granted never starts
\* run_ocr_sync.
C9_CancelYieldsFailure ==
  \A r \in Requests :
    pc[r] = "cancelled" =>
      /\ response[r] # NoResponse
      /\ ~response[r].success /\ response[r].error # ""
      /\ acquired[r] = 0 => thread[r] = "none"

\* C10: in every response success=false implies a non-empty error, empty
\* text and confidence 0, and success=true implies an empty error.
C10_ResponseShape ==
  \A r \in Requests :
    pc[r] = "done" =>
      /\ ~response[r].success =>
           /\ response[r].error # ""
           /\ response[r].text = "" /\ response[r].confidence = 0
      /\ response[r].success => response[r].error = ""
\* C11: the resolver is total and every output is one of the ten canonical
\* identifiers; two codes of the same alias group resolve to the same
\* identifier, and a code the table does not have resolves to "en".
C11_ResolverTotal ==
  LET Canonical == {"en", "vi", "ch", "chinese_cht", "japan", "korean",
                    "french", "german", "es", "ru"}
      AliasGroups == {{"en", "eng"}, {"vi", "vie"}, {"ch", "chi_sim"},
                      {"chi_tra"}, {"ja", "jpn"}, {"ko", "kor"},
                      {"fr", "fra"}, {"de", "deu"}, {"es", "spa"},
                      {"ru", "rus"}}
  IN  lookup.step \in {"resolved", "again"} =>
        /\ lookup.canon \in Canonical
        /\ lookup.canonOther \in Canonical
        /\ \A g \in AliasGroups :
             (lookup.code \in g /\ lookup.other \in g)
               => lookup.canon = lookup.canonOther
        /\ lookup.code \notin UNION AliasGroups => lookup.canon = "en"

\* An alias and its short form have been resolved, next to an unknown code.
C11_Witness ==
  /\ lookup.step = "resolved"
  /\ lookup.code = "jpn" /\ lookup.canon = "japan"
  /\ lookup.other = "zz" /\ lookup.canonOther = "en"

\* C17: the resolver is idempotent, resolve(resolve(x)) = resolve(x), and
\* every canonical identifier resolves to itself.
C17_ResolverIdempotent ==
  LET Canonical == {"en", "vi", "ch", "chinese_cht", "japan", "korean",
                    "french", "german", "es", "ru"}
  IN  /\ lookup.step = "again" => lookup.again = lookup.canon
      /\ (lookup.step = "resolved" /\ lookup.code \in Canonical)
           => lookup.canon = lookup.code
\* C12: for a page of N well-formed records the text is the records' texts
\* in input order with one newline between neighbours, and the confidence
\* is the mean of the confidences rounded to one decimal of a percent, that
\* is a tenth of a percent at most half a tenth away from the mean; for no
\* records the result is ("", 0).
C12_Aggregation ==
  LET ls == PageOf(aggregate.result)
      n == Len(ls)
      out == aggregate.out
      end[i \in 0..n] ==
        IF i = 0 THEN 0
        ELSE end[i - 1] + (IF i = 1 THEN 0 ELSE 1) + Len(ls[i].text)
      sum[i \in 0..n] == IF i = 0 THEN 0 ELSE sum[i - 1] + ls[i].conf
      dist == IF out.conf * n >= sum[n] THEN out.conf * n - sum[n]
              ELSE sum[n] - out.conf * n
  IN  (aggregate.step = "done" /\ \A i \in 1..n : ls[i].kind = "ok") =>
        /\ out.kind = "value"
        /\ n = 0 => out.text = "" /\ out.conf = 0
        /\ n > 0 =>
             /\ Len(out.text) = end[n]
             /\ \A i \in 1..n :
                  /\ SubSeq(out.text, end[i] - Len(ls[i].text) + 1, end[i])
                       = ls[i].text
                  /\ i < n => SubSeq(out.text, end[i] + 1, end[i] + 1) = "\n"
             /\ 2 * dist <= n

\* Three well-formed records with confidences 0.9, 0.8 and 0.7 have been
\* aggregated to 80.0.
C12_Witness ==
  /\ aggregate.step = "done"
  /\ aggregate.result = Page(<< Line("ok", "a", 900), Line("ok", "bc", 800),
                                Line("ok", "a", 700) >>)
  /\ aggregate.out.text = "a\nbc\na"
  /\ aggregate.out.conf = 800

\* C20: malformed records (empty, fewer than two fields, a second field that
\* is not a pair) are left out: the result is the aggregate of the
\* well-formed records alone, and ("", 0) when there are none.
C20_MalformedExcluded ==
  LET ls == PageOf(aggregate.result)
      wellFormed == SelectSeq(ls, LAMBDA l : l.kind = "ok")
  IN  aggregate.step = "done" =>
        /\ aggregate.out.kind = "value"
        /\ aggregate.out.text = Join(wellFormed)
        /\ aggregate.out.conf = Confidence(wellFormed)
        /\ wellFormed = << >> =>
             aggregate.out.text = "" /\ aggregate.out.conf = 0
\* C13: every successful response is returned with detectedLanguage equal
\* to the language parameter the handler was called with, not the resolved
\* identifier (nor the default the resolver falls back to).
C13_DetectedLanguage ==
  [][\A r \in Requests :
       (pc[r] # "done" /\ pc'[r] = "done" /\ response'[r].success) =>
         /\ response'[r].detectedLanguage = language[r]
         /\ language[r] # PaddleLang(language[r])
              => response'[r].detectedLanguage # PaddleLang(language[r])]_vars

\* A request sent with the alias jpn and one sent with an unknown code have
\* both succeeded.
C13_Witness ==
  \E r, q \in Requests :
    /\ pc[r] = "done" /\ response[r].success
    /\ response[r].detectedLanguage = "jpn"
    /\ pc[q] = "done" /\ response[q].success
    /\ response[q].detectedLanguage = "zz"

\* C14: a request that passed decode and was answered started exactly one
\* engine construction, called ocr.ocr at most once, and its instance (if
\* one was constructed) was disposed by the time of the response.
C14_OneEnginePerRequest ==
  \A r \in Requests :
    (pc[r] = "done" /\ fault[r] \notin {"read", "imdecode", "img_none"}) =>
      /\ constructed[r] = 1
      /\ recognized[r] <= 1
      /\ engine[r] \in {"none", "released"}

\* C15: when a request that constructed an engine is answered, after a
\* success or after a fault, `del ocr; gc.collect()` has run for its engine,
\* and no request has given back its permit while its engine was still
\* unreleased.
C15_EngineThenPermit ==
  \A r \in Requests :
    /\ (pc[r] = "done" /\ recognized[r] > 0) => engine[r] = "released"
    /\ (pc[r] = "done" /\ released[r] = 1) => engine[r] # "live"

C18_LoopStaysResponsive ==
  (health = "pending"
     /\ \E r \in Requests : pc[r] = "decode" \/ thread[r] = "ocr")
    => ENABLED HealthServe

\* C19: the processingTime of every response, success or failure, is the
\* time that passed between the start of the handler and the response, the
\* time spent waiting for the semaphore included.
C19_ProcessingTime ==
  \A r \in Requests :
    pc[r] = "done" =>
      /\ response[r].processingTime = elapsed[r].total
      /\ response[r].processingTime >= elapsed[r].waiting

\* A failure response whose whole processing time was spent waiting for the
\* semaphore.
C19_Witness ==
  \E r \in Requests :
    /\ pc[r] = "done" /\ ~response[r].success
    /\ elapsed[r].waiting > 0
    /\ response[r].processingTime = elapsed[r].waiting
====
